---- MODULE Spec2Model ----
(***************************************************************************)
(* Model of checker.py: the ticket availability notifier.  One invocation  *)
(* of main() loads state.json, fetches the calendar feed, decides whether  *)
(* to send an email and saves the new state.                               *)
(*                                                                         *)
(* Dates and timestamps are fixed-width digit strings in the program       *)
(* ("20240401", "20240401093000"); they are modelled by the integers with  *)
(* the same digits, whose order is the strings' lexicographic order.       *)
(*                                                                         *)
(* Left out, as nothing in the control flow reads them: MIN_RYOKIN and the *)
(* formatted "date" of a slot, the text of the mail beyond which of the    *)
(* two messages it is, and the log lines.  The clock is read once per run  *)
(* (the program reads it at the fetch and again for last_checked).  The    *)
(* write of state.json is taken to succeed.                                *)
(***************************************************************************)
EXTENDS Integers, Sequences, FiniteSets, TLC

VARIABLES
    stateFile,   \* the content of state.json (STATE_FILE)
    prevFile,    \* history: the content of state.json when the last run started
    last,        \* history: what the last sequential run of main() did
    notified,    \* history: ids delivered by a run and available in every successful fetch since
    dropped,     \* history: ids a completed run removed from state.json, not announced since
    pc,          \* overlapping invocations: the position of each invocation in main()
    loc,         \* overlapping invocations: the local variables of each invocation
    overlap      \* history: some invocation loaded state.json while the other was between load and exit

vars == <<stateFile, prevFile, last, notified, dropped, pc, loc, overlap>>

----------------------------------------------------------------------------
(* Bounds of the model *)

\* longest response body, in lines, a sequential run is given
MaxLines == 2

\* longest response body, in lines, an overlapping invocation is given
MaxLinesConc == 1

\* JOEN_DATE values of the feed
Ids == {20240401, 20240402}

\* values of the clock (get_current_jst_str, datetime.now)
Times == {1, 2}

\* ZANSEKI values of the feed
Seats == {0, 2}

\* <<YOYAKU_STDATE, YOYAKU_EDDATE>> values of the feed: open at both clock
\* values, not yet open at the first, already closed at the second
Windows == {<<1, 2>>, <<2, 2>>, <<1, 1>>}

\* the two overlapping invocations
Procs == {1, 2}

----------------------------------------------------------------------------
(* state.json *)

\* last_checked: None
NoTime == 0

FileKinds == {"missing", "invalid_json", "not_dict", "dict_nofield", "dict_badfield", "dict"}

MkFile(kind, checked, dates) ==
    [kind |-> kind, last_checked |-> checked, last_available_dates |-> dates]

\* python's sorted() on a set of dates
RECURSIVE sorted(_)
sorted(S) ==
    IF S = {} THEN <<>>
    ELSE LET m == CHOOSE x \in S : \A y \in S : x <= y
         IN  <<m>> \o sorted(S \ {m})

Range(s) == {s[i] : i \in 1..Len(s)}

\* the dict load_state returns when state.json is missing or unreadable
DefaultState == MkFile("dict", NoTime, <<>>)

\* load_state: json.load of the file; a missing file, an OSError and a
\* JSONDecodeError give the default dict; any other JSON value is returned as is
load_state(file) ==
    IF file.kind \in {"missing", "invalid_json"} THEN DefaultState ELSE file

\* state.get("last_available_dates", []) and set(...) raise on a JSON value that
\* is no dict (AttributeError) and on a field that is not iterable (TypeError)
prev_raises(state) == state.kind \in {"not_dict", "dict_badfield"}

\* a bug: the previous dates are not read from the loaded state
prev_available_dates_forgotten(state) == {}

\* prev_available_dates = set(state.get("last_available_dates", []))
prev_available_dates(state) ==
    IF state.kind = "dict" THEN Range(state.last_available_dates) ELSE {}

\* a bug: the save updates last_checked and leaves the dates out
save_state_without_dates(now, current) == MkFile("dict", now, <<>>)

\* state.update({...}) followed by save_state(state)
save_state(now, current) == MkFile("dict", now, sorted(current))

----------------------------------------------------------------------------
(* The calendar feed *)

MkLine(type, id, seats, st, ed) ==
    [type |-> type, JOEN_DATE |-> id, ZANSEKI |-> seats,
     YOYAKU_STDATE |-> st, YOYAKU_EDDATE |-> ed]

\* the lines a response body is made of: "blank", an empty line (skipped);
\* "text", a line json.loads rejects (JSONDecodeError, skipped); "scalar", a
\* line that is JSON but on which record.get or int(...) raises (it is no
\* object, or its ZANSEKI is no number); and the records
FeedLines ==
    {MkLine("blank", 0, 0, 0, 0), MkLine("text", 0, 0, 0, 0), MkLine("scalar", 0, 0, 0, 0)}
    \cup {MkLine("record", id, z, w[1], w[2]) : id \in Ids, z \in Seats, w \in Windows}

RECURSIVE SeqsUpTo(_, _)
SeqsUpTo(S, n) ==
    IF n = 0 THEN {<<>>}
    ELSE LET shorter == SeqsUpTo(S, n - 1)
         IN  shorter \cup {Append(s, x) : s \in {t \in shorter : Len(t) = n - 1}, x \in S}

Bodies(n) == SeqsUpTo(FeedLines, n)

\* requests.get with raise_for_status: "error" is a network error, an HTTP error
\* status or a timeout
Responses(n) ==
    {[status |-> "error", body |-> <<>>]} \cup {[status |-> "ok", body |-> b] : b \in Bodies(n)}

\* the test of line 92
is_available(rec, now) ==
    rec.ZANSEKI > 0 /\ rec.YOYAKU_STDATE <= now /\ now <= rec.YOYAKU_EDDATE

\* an entry of available_dates
MkSlot(rec) == [joen_date |-> rec.JOEN_DATE, zanseki |-> rec.ZANSEKI]

\* the loop of fetch_available_dates over the lines of the body; an exception
\* raised at any line leaves the function with no list
RECURSIVE parse_lines(_, _)
parse_lines(body, now) ==
    IF body = <<>> THEN [raised |-> FALSE, available |-> <<>>]
    ELSE LET line == Head(body)
             rest == parse_lines(Tail(body), now)
         IN  CASE line.type = "blank" -> rest
               [] line.type = "text" -> rest
               [] line.type = "scalar" -> [raised |-> TRUE, available |-> <<>>]
               [] OTHER ->
                    IF rest.raised THEN rest
                    ELSE IF is_available(line, now)
                         THEN [raised |-> FALSE, available |-> <<MkSlot(line)>> \o rest.available]
                         ELSE rest

fetch_available_dates(resp, now) ==
    IF resp.status = "error" THEN [raised |-> TRUE, available |-> <<>>]
    ELSE parse_lines(resp.body, now)

has_text_line(resp) == \E i \in 1..Len(resp.body) : resp.body[i].type = "text"

\* the call of line 181 under its try: what main() gets from one response read
\* at one clock value
Fetch(resp, now) ==
    LET f == fetch_available_dates(resp, now)
    IN  [now |-> now, raised |-> f.raised, available |-> f.available,
         text |-> has_text_line(resp)]

\* what the fetch can hand to main(): every response of at most n lines, read
\* at every clock value
Fetches(n) == {Fetch(resp, now) : resp \in Responses(n), now \in Times}

SeqFetches == Fetches(MaxLines)

ConcFetches == Fetches(MaxLinesConc)

----------------------------------------------------------------------------
(* The decision of main() *)

SlotIds(slots) == {slots[i].joen_date : i \in 1..Len(slots)}

current_available_dates(available) == SlotIds(available)

IsNew(slot, prev) == slot.joen_date \notin prev

\* a bug: the scan for new slots stops at the first one
newly_available_first_only(available, prev) ==
    LET Fresh(slot) == IsNew(slot, prev)
        fresh == SelectSeq(available, Fresh)
    IN  IF fresh = <<>> THEN <<>> ELSE <<Head(fresh)>>

RECURSIVE newly_available(_, _)
newly_available(available, prev) ==
    IF available = <<>> THEN <<>>
    ELSE IF IsNew(Head(available), prev)
         THEN <<Head(available)>> \o newly_available(Tail(available), prev)
         ELSE newly_available(Tail(available), prev)

\* a bug: a run without --force-notify sends the full list, not the new slots
notify_args_full_list(force, available, newly) ==
    IF force THEN [call |-> TRUE, payload |-> available, is_test |-> TRUE]
    ELSE IF newly # <<>> THEN [call |-> TRUE, payload |-> available, is_test |-> FALSE]
    ELSE [call |-> FALSE, payload |-> <<>>, is_test |-> FALSE]

\* a bug: a run with --force-notify sends the new slots, not the full list
notify_args_force_new_only(force, available, newly) ==
    IF force THEN [call |-> TRUE, payload |-> newly, is_test |-> TRUE]
    ELSE IF newly # <<>> THEN [call |-> TRUE, payload |-> newly, is_test |-> FALSE]
    ELSE [call |-> FALSE, payload |-> <<>>, is_test |-> FALSE]

\* the branches of lines 194-225: whether send_email is called, and with what
notify_args(force, available, newly) ==
    IF force THEN [call |-> TRUE, payload |-> available, is_test |-> TRUE]
    ELSE IF newly # <<>> THEN [call |-> TRUE, payload |-> newly, is_test |-> FALSE]
    ELSE [call |-> FALSE, payload |-> <<>>, is_test |-> FALSE]

\* the subject and body send_email chooses
message(is_test, available_dates) ==
    IF is_test /\ available_dates = <<>> THEN "test_no_availability" ELSE "availability"

\* how main() ends
outcome_of(loadRaised, fetchRaised, call, smtp_ok) ==
    IF loadRaised THEN "load_crashed"
    ELSE IF fetchRaised THEN "fetch_failed"
    ELSE IF call /\ ~smtp_ok THEN "send_failed"
    ELSE "completed"

\* the exit status of the process
exit_status(outcome) ==
    IF outcome \in {"load_crashed", "send_failed", "config_error"} THEN 1 ELSE 0

\* a bug: the handler of a failed fetch does not leave main()
reaches_save_after_fetch_failure(outcome) == outcome \in {"completed", "fetch_failed"}

\* a bug: the handler of a failed send does not leave main()
reaches_save_after_send_failure(outcome) == outcome \in {"completed", "send_failed"}

\* lines 227-231 are reached only when nothing above them left main()
reaches_save(outcome) == outcome = "completed"

\* the locals of an invocation that has not started
NoLocals ==
    [force |-> FALSE, prev |-> {}, available |-> <<>>, now |-> NoTime,
     payload |-> <<>>, delivered |-> FALSE]

----------------------------------------------------------------------------
(* The log of one run of main() *)

NoRun ==
    [outcome |-> "none", force |-> FALSE, text |-> FALSE, diffed |-> FALSE,
     available |-> <<>>, called |-> FALSE, payload |-> <<>>, is_test |-> FALSE,
     message |-> "none", delivered |-> FALSE, saved |-> FALSE]

FileIds(file) == prev_available_dates(load_state(file))

AvailableIds(log) == SlotIds(log.available)

PayloadIds(log) == SlotIds(log.payload)

\* a run whose fetch returned a list
FetchSucceeded(log) == log.outcome \in {"send_failed", "completed"}

----------------------------------------------------------------------------
(* Sequential runs: each run of main() ends before the next one starts *)

\* history kept beside the log of a run: what the run before it left behind
NoHistory == [repeats |-> {}, retry |-> {}, was_dropped |-> {}]

InitFiles ==
    {MkFile(k, NoTime, <<>>) : k \in FileKinds}
    \cup {MkFile("dict", t, sorted(S)) : t \in Times, S \in SUBSET Ids}

Init ==
    /\ stateFile \in InitFiles
    /\ prevFile = stateFile
    /\ last = [log |-> NoRun] @@ NoHistory
    /\ notified = {}
    /\ dropped = {}
    /\ pc = [p \in Procs |-> "start"]
    /\ loc = [p \in Procs |-> NoLocals]
    /\ overlap = FALSE

\* a run with the configuration present (lines 166-232); each bound name is
\* the local variable of main() of that name
Main(force, fetched, smtp_ok) ==
    \E state \in {load_state(stateFile)} :
    \E loadRaised \in {prev_raises(state)} :
    \E prev_dates \in {prev_available_dates(state)} :
    \E diffed \in {~loadRaised /\ ~fetched.raised} :
    \E available_dates \in {IF diffed THEN fetched.available ELSE <<>>} :
    \E args \in {notify_args(force, available_dates,
                             newly_available(available_dates, prev_dates))} :
    \E called \in {diffed /\ args.call} :
    \E outcome \in {outcome_of(loadRaised, fetched.raised, called, smtp_ok)} :
    \E payload \in {IF called THEN args.payload ELSE <<>>} :
    \E log \in {[outcome |-> outcome,
                 force |-> force,
                 text |-> ~loadRaised /\ fetched.text,
                 diffed |-> diffed,
                 available |-> available_dates,
                 called |-> called,
                 payload |-> payload,
                 is_test |-> called /\ args.is_test,
                 message |-> IF called THEN message(args.is_test, payload) ELSE "none",
                 delivered |-> called /\ smtp_ok,
                 saved |-> reaches_save(outcome)]} :
    \E ids \in {SlotIds(payload)} :
        /\ stateFile' = IF log.saved
                        THEN save_state(fetched.now, current_available_dates(available_dates))
                        ELSE stateFile
        /\ prevFile' = stateFile
        /\ last' = [log |-> log,
                    \* ids this run announced although a run had delivered them
                    \* and every successful fetch since had them available
                    repeats |-> IF called /\ ~force THEN ids \cap notified ELSE {},
                    \* ids the run before this one failed to send
                    retry |-> IF last.log.outcome = "send_failed" /\ ~last.log.force
                              THEN PayloadIds(last.log) ELSE {},
                    was_dropped |-> dropped]
        /\ notified' = IF FetchSucceeded(log)
                       THEN (notified \cap SlotIds(available_dates))
                            \cup (IF log.delivered /\ ~force THEN ids ELSE {})
                       ELSE notified
        /\ dropped' = IF FetchSucceeded(log)
                      THEN (dropped \cup (IF log.saved
                                          THEN prev_dates \ SlotIds(available_dates)
                                          ELSE {}))
                           \ (IF log.delivered THEN ids ELSE {})
                      ELSE dropped
        /\ UNCHANGED <<pc, loc, overlap>>

\* a run with GMAIL_USER, GMAIL_APP_PASSWORD or NOTIFY_TO missing (lines 171-173)
MainConfigError ==
    /\ last' = [log |-> [NoRun EXCEPT !.outcome = "config_error"]] @@ NoHistory
    /\ prevFile' = stateFile
    /\ UNCHANGED <<stateFile, notified, dropped, pc, loc, overlap>>

Next ==
    \/ \E force \in BOOLEAN, fetched \in SeqFetches, smtp_ok \in BOOLEAN :
          Main(force, fetched, smtp_ok)
    \/ MainConfigError

Spec == Init /\ [][Next]_vars

----------------------------------------------------------------------------
(* Overlapping invocations: two processes run main() once each, with no    *)
(* lock on state.json.  The steps are the accesses to what they share: the *)
(* read of the file, the two halves of its rewrite (open(..., "w")         *)
(* truncates it, json.dump fills it), and the calls in between.            *)

InFlight == {"loaded", "fetched", "notified", "writing"}

Other(p) == CHOOSE q \in Procs : q # p

\* lines 177-178: load_state and the set of previous dates
LoadStep(p, force) ==
    /\ pc[p] = "start"
    /\ LET state == load_state(stateFile)
       IN  IF prev_raises(state)
           THEN /\ pc' = [pc EXCEPT ![p] = "exit1"]
                /\ loc' = [loc EXCEPT ![p].force = force]
           ELSE /\ pc' = [pc EXCEPT ![p] = "loaded"]
                /\ loc' = [loc EXCEPT ![p].force = force,
                                      ![p].prev = prev_available_dates(state)]
    /\ overlap' = (overlap \/ pc[Other(p)] \in InFlight)
    /\ UNCHANGED <<stateFile, prevFile, last, notified, dropped>>

\* lines 180-185: the fetch, and sys.exit(0) when it raises
FetchStep(p, fetched) ==
    /\ pc[p] = "loaded"
    /\ IF fetched.raised
       THEN /\ pc' = [pc EXCEPT ![p] = "exit0"]
            /\ loc' = loc
       ELSE /\ pc' = [pc EXCEPT ![p] = "fetched"]
            /\ loc' = [loc EXCEPT ![p].available = fetched.available,
                                  ![p].now = fetched.now]
    /\ UNCHANGED <<stateFile, prevFile, last, notified, dropped, overlap>>

\* lines 187-225: the decision and the call of send_email
NotifyStep(p, smtp_ok) ==
    /\ pc[p] = "fetched"
    /\ LET newly == newly_available(loc[p].available, loc[p].prev)
           args == notify_args(loc[p].force, loc[p].available, newly)
           outcome == outcome_of(FALSE, FALSE, args.call, smtp_ok)
       IN  IF reaches_save(outcome)
           THEN /\ pc' = [pc EXCEPT ![p] = "notified"]
                /\ loc' = [loc EXCEPT ![p].payload = args.payload,
                                      ![p].delivered = args.call]
           ELSE /\ pc' = [pc EXCEPT ![p] = IF exit_status(outcome) = 1 THEN "exit1" ELSE "exit0"]
                /\ loc' = loc
    /\ UNCHANGED <<stateFile, prevFile, last, notified, dropped, overlap>>

\* line 52: open(STATE_FILE, "w") leaves an empty file, which is no JSON
SaveOpenStep(p) ==
    /\ pc[p] = "notified"
    /\ stateFile' = MkFile("invalid_json", NoTime, <<>>)
    /\ pc' = [pc EXCEPT ![p] = "writing"]
    /\ UNCHANGED <<prevFile, last, notified, dropped, loc, overlap>>

\* line 53: json.dump writes the updated dict; main() returns
SaveWriteStep(p) ==
    /\ pc[p] = "writing"
    /\ stateFile' = save_state(loc[p].now, current_available_dates(loc[p].available))
    /\ pc' = [pc EXCEPT ![p] = "exit0"]
    /\ UNCHANGED <<prevFile, last, notified, dropped, loc, overlap>>

NextConc ==
    \E p \in Procs :
        \/ \E force \in BOOLEAN : LoadStep(p, force)
        \/ \E fetched \in ConcFetches : FetchStep(p, fetched)
        \/ \E smtp_ok \in BOOLEAN : NotifyStep(p, smtp_ok)
        \/ SaveOpenStep(p)
        \/ SaveWriteStep(p)

SpecConc == Init /\ [][NextConc]_vars

----------------------------------------------------------------------------
(* Properties of sequential runs *)

Log == last.log

\* the run the log is of got past the configuration check
Ran == Log.outcome \notin {"none", "config_error"}

\* C1: a run whose fetch raises computes no diff, calls neither send_email nor
\* save_state, leaves state.json as it found it and exits with status 0
C1_FetchFailureKeepsState ==
    Log.outcome = "fetch_failed" =>
        /\ ~Log.diffed
        /\ ~Log.called
        /\ ~Log.saved
        /\ stateFile = prevFile
        /\ exit_status(Log.outcome) = 0

C1_Witness ==
    /\ Log.outcome = "fetch_failed"
    /\ FileIds(stateFile) # {}
    /\ notified # {}

\* C2: a run without --force-notify never announces an id that a run has
\* delivered and that every successful fetch since had available; and a second
\* run on the snapshot of a run that saved, with what it saved as the previous
\* dates, does not notify
C2_NoDuplicateNotification ==
    /\ last.repeats = {}
    /\ Log.saved =>
          ~notify_args(FALSE, Log.available,
                       newly_available(Log.available, FileIds(stateFile))).call

C2_Witness ==
    /\ Log.outcome = "completed"
    /\ ~Log.force
    /\ ~Log.called
    /\ notified \cap AvailableIds(Log) # {}

\* C3 as claimed: after every run whose fetch succeeded, also one whose send
\* failed, state.json holds the sorted ids of the slots now available
C3_SavedAfterEverySuccessfulFetch ==
    FetchSucceeded(Log) =>
        /\ stateFile.kind = "dict"
        /\ stateFile.last_available_dates = sorted(AvailableIds(Log))

\* C3, amended: after a run whose fetch succeeded and in which send_email did
\* not raise (no email needed, or the email sent), state.json holds the sorted
\* ids of the slots now available; a run whose send raised exits with status 1
\* before save_state and leaves state.json as it found it
C3_SavedUnlessSendFailed ==
    /\ Log.outcome = "completed" =>
          /\ Log.saved
          /\ stateFile.kind = "dict"
          /\ stateFile.last_available_dates = sorted(AvailableIds(Log))
    /\ Log.outcome = "send_failed" =>
          /\ ~Log.saved
          /\ stateFile = prevFile
          /\ exit_status(Log.outcome) = 1

C3_Witness ==
    /\ Log.outcome = "completed"
    /\ Log.delivered
    /\ ~Log.force
    /\ FileIds(prevFile) # {}
    /\ FileIds(stateFile) # FileIds(prevFile)

\* C4: without --force-notify and with the fetch succeeded, send_email is
\* called iff some available slot has an id outside the previous dates, and
\* with exactly the available slots whose id is outside them, in feed order
C4_NewOnlyPayload ==
    (FetchSucceeded(Log) /\ ~Log.force) =>
        LET known == FileIds(prevFile)
            Fresh(slot) == slot.joen_date \notin known
        IN  /\ Log.called <=> (AvailableIds(Log) \ known # {})
            /\ Log.payload = SelectSeq(Log.available, Fresh)
            /\ PayloadIds(Log) \cap known = {}

C4_Witness ==
    /\ FetchSucceeded(Log)
    /\ ~Log.force
    /\ FileIds(prevFile) = {20240401}
    /\ AvailableIds(Log) = {20240401, 20240402}
    /\ PayloadIds(Log) = {20240402}

\* C5: with --force-notify and the fetch succeeded, send_email is always called,
\* with the full list of available slots whatever the previous dates are, and
\* with the fixed test message when the list is empty
C5_ForceSendsFullList ==
    (FetchSucceeded(Log) /\ Log.force) =>
        /\ Log.called
        /\ Log.payload = Log.available
        /\ Log.available = <<>> => Log.message = "test_no_availability"

C5_Witness ==
    /\ FetchSucceeded(Log)
    /\ Log.force
    /\ Log.delivered
    /\ AvailableIds(Log) # {}
    /\ AvailableIds(Log) = FileIds(prevFile)

\* C6 as claimed: a response with a line that does not parse ends the run as a
\* fetch failure, with no diff and no save
C6_ParseErrorIsFetchFailure ==
    (Ran /\ Log.text) => (~Log.diffed /\ ~Log.saved /\ stateFile = prevFile)

\* C7: when send_email raises in a run that announced newly available ids, the
\* run exits with status 1 and state.json holds none of those ids; and the next
\* run without --force-notify whose fetch has them available announces them again
C7_FailedSendIsRetried ==
    /\ (Log.outcome = "send_failed" /\ ~Log.force) =>
          /\ exit_status(Log.outcome) = 1
          /\ PayloadIds(Log) # {}
          /\ PayloadIds(Log) \cap FileIds(stateFile) = {}
    /\ (FetchSucceeded(Log) /\ ~Log.force) =>
          /\ (last.retry \cap AvailableIds(Log)) \subseteq PayloadIds(Log)
          /\ last.retry \cap AvailableIds(Log) # {} => Log.called

C7_Witness ==
    /\ Log.outcome = "completed"
    /\ ~Log.force
    /\ Log.delivered
    /\ last.retry \cap PayloadIds(Log) # {}

\* C8 as claimed: whatever state.json holds that is not the expected record (no
\* file, no JSON, a dict without last_available_dates, any other shape), the run
\* goes on as a first run, with no previous dates
C8_LoadNeverFails ==
    (Ran /\ (prevFile.kind # "dict")) =>
        /\ Log.outcome # "load_crashed"
        /\ (FetchSucceeded(Log) /\ ~Log.force) =>
              Log.payload = Log.available

\* C9: a completed run in which an id of state.json is not available removes
\* it from state.json and does not announce it; while it stays removed it is not
\* in state.json; and a later run without --force-notify whose fetch has it
\* available again announces it
C9_ReappearanceRealerts ==
    /\ Log.saved =>
          \A x \in FileIds(prevFile) \ AvailableIds(Log) :
              x \notin FileIds(stateFile) /\ x \notin PayloadIds(Log) /\ x \in dropped
    /\ dropped \cap FileIds(stateFile) = {}
    /\ (FetchSucceeded(Log) /\ ~Log.force) =>
          \A x \in last.was_dropped \cap AvailableIds(Log) :
              Log.called /\ x \in PayloadIds(Log)

C9_Witness ==
    /\ Log.outcome = "completed"
    /\ ~Log.force
    /\ Log.delivered
    /\ last.was_dropped \cap PayloadIds(Log) # {}
    /\ last.was_dropped \cap FileIds(stateFile) # {}

----------------------------------------------------------------------------
(* Properties of overlapping invocations *)

\* both invocations, without --force-notify, delivered a notification with x
DoubleNotify(x) ==
    \A p \in Procs :
        /\ ~loc[p].force
        /\ loc[p].delivered
        /\ x \in SlotIds(loc[p].payload)

\* C10: two invocations both deliver a notification for the same newly
\* available id only when they overlap (one loads state.json while the other
\* is between its load and its exit); invocations that run one after the other
\* never do
C10_DoubleNotifyOnlyWhenOverlapping ==
    (\E x \in Ids : DoubleNotify(x)) => overlap

\* both have loaded and sent, neither has saved yet
C10_Witness ==
    /\ \E x \in Ids : DoubleNotify(x)
    /\ \A p \in Procs : pc[p] = "notified"
    /\ overlap

====
